---- MODULE Spec2Model ----
(***************************************************************************)
(* A model of qapish/qapi:                                                 *)
(*   - WsProvider, the JSON-RPC-over-WebSocket transport                   *)
(*     (packages/provider-ws/src/index.ts), as a state machine whose steps *)
(*     are the event-loop tasks of the program: calls made by user code,   *)
(*     promise continuations (microtasks), socket events and timers;       *)
(*   - the extrinsic identifier, Qapi.codec.decodeExtrinsicName            *)
(*     (packages/substrate/src/index.ts) with hexToU8a, decodeCompactU32   *)
(*     and readExtrinsicPrefix (packages/scale/src/index.ts), as operators *)
(*     applied to bounded inputs;                                          *)
(*   - the facade Qapi (packages/substrate/src/index.ts): connect,         *)
(*     tablesForBlock, blocks.get and chainHead.subscribe, each request    *)
(*     answered by the node in any of the ways it can be;                  *)
(*   - the metadata reader (packages/scale/src/metadata.ts): the registry  *)
(*     pass, the pallet pass and variantNamesFrom, and the compact         *)
(*     encoder of packages/scale/src/index.ts.                             *)
(***************************************************************************)
EXTENDS Integers, Sequences, FiniteSets, TLC

VARIABLES
  socks,       \* the WebSocket objects with handlers attached: slot -> readyState
  ws,          \* this.ws: the slot of the current socket, 0 when undefined
  id,          \* this.id
  pending,     \* the keys of this.pending; the resolver stored under k is call k's
  subs,        \* this.subs: key string -> handler
  backoff,     \* this.backoff
  timers,      \* number of reconnect timers scheduled and not yet fired
  calls,       \* the send/subscribe/unsubscribe calls made so far
  microtasks,  \* queue of the calls whose continuation is ready to run
  ran,         \* the handler calls the last step made (observation only)
  delays,      \* the delays scheduled since the last successful open (history)
  budget,      \* what the environment does at most in this run
  hex,         \* extrinsic identification: the hex digits of the input
  table,       \* extrinsic identification: the table tablesForBlock returned
  out,         \* extrinsic identification: the outcome of the call
  cfg,         \* facade: what Qapi.connect is given and runs with
  api,         \* facade: how far Qapi.connect has come
  runtime,     \* facade: this.runtime
  tablesLatest,  \* facade: this.tablesLatest
  tablesBySpec,  \* facade: this.tablesBySpec
  tasks,       \* facade: the tablesForBlock calls made so far
  get,         \* blocks.get: the call in progress
  def,         \* variantNamesFrom: reg.get(typeId), the type looked up
  names,       \* variantNamesFrom: the outcome of the call
  pass,        \* readPallets: the records of the input and the pass over them
  registry,    \* readPortableRegistryWithFallback: the pass over the types
  compact,     \* encodeCompactU32/decodeCompactU32: value, bytes and outcome
  heads        \* chainHead.subscribe: heads notified, requested, called back

vars == <<socks, ws, id, pending, subs, backoff, timers, calls, microtasks,
          ran, delays, budget, hex, table, out, cfg, api, runtime,
          tablesLatest, tablesBySpec, tasks, get, def, names, pass, registry,
          compact, heads>>
xVars == <<hex, table, out>>
qVars == <<cfg, api, runtime, tablesLatest, tablesBySpec, tasks>>
bVars == <<get>>
vVars == <<def, names>>
pVars == <<pass>>
rVars == <<registry>>
cVars == <<compact>>
hVars == <<heads>>

----------------------------------------------------------------------------
(* Bounds of the model *)

MaxCalls == 2      \* send/subscribe calls made while no socket closes
MaxUnsubs == 2     \* calls of the closure of one subscription
MaxDropCalls == 1  \* send/subscribe calls made while sockets close
MaxFails == 8      \* consecutive closes without an open in between
MaxLive == 2       \* sockets alive (connecting or open) at the same time
MaxTimers == 1     \* reconnect timers scheduled at the same time
MaxBytes == 7      \* bytes of an extrinsic
MaxLookups == 2    \* tablesForBlock calls on one facade
MaxBlocks == 2     \* distinct blocks and headers the node answers with
MaxVariants == 3   \* variants of an enum type
MaxIndex == 2      \* largest declared index of a variant
MaxPallets == 3    \* pallet records the metadata declares
Spread == 8        \* values tried on each side of a boundary of the compact modes
MaxTypes == 6      \* types the registry declares
MaxHeads == 4      \* new-head notifications of one subscription

\* A run is bounded in one of three ways: concurrent calls on sockets that stay
\* up; one subscription and calls of its closure; calls on sockets that drop,
\* with rows of failed connection attempts.
Budgets ==
  {[calls |-> MaxCalls, unsubs |-> 0, drops |-> 0],
   [calls |-> 1, unsubs |-> MaxUnsubs, drops |-> 0],
   [calls |-> MaxDropCalls, unsubs |-> 0, drops |-> MaxFails]}

(* Program constants *)

InitialBackoff == 250
BackoffCap == 10000

----------------------------------------------------------------------------
(* Values carried by JSON-RPC messages *)

Num(n) == [t |-> "num", v |-> n]
Str(n) == [t |-> "str", v |-> n]      \* the string of the decimal digits of n
Null == [t |-> "null", v |-> 0]
Results == {Num(1), Num(2)}               \* "result" of a response
SubIds == {Num(1), Str(1), Num(2)}        \* params.subscription of a notification

Digits == <<"1", "2", "3", "4", "5", "6", "7", "8", "9">>

\* String(x) of JavaScript: a number gives its decimal digits, a string itself.
String(x) == Digits[x.v]

\* The handler a subscribe call passes is named by the number of that call.
Slots == 1..MaxLive
\* No run makes more requests than this: every call sends at most one.
MaxRequests ==
  CHOOSE n \in 0..(MaxCalls + MaxUnsubs + MaxDropCalls) :
    /\ \E b \in Budgets : n = b.calls + b.unsubs
    /\ \A b \in Budgets : n >= b.calls + b.unsubs
Ids == 1..MaxRequests

\* An inbound frame, parsed. id = 0: no "id" member; sub = Null: no
\* params.subscription; val: "result", params.result or the error payload.
Messages ==
       [id : Ids, err : {FALSE}, method : {FALSE}, sub : {Null}, val : Results]
  \cup [id : Ids, err : {TRUE}, method : {FALSE}, sub : {Null}, val : {Num(1)}]
  \cup [id : {0}, err : {FALSE}, method : {TRUE}, sub : SubIds, val : Results]
  \cup [id : Ids, err : {FALSE}, method : {TRUE}, sub : {Num(1)}, val : {Num(2)}]
  \cup [id : Ids, err : {FALSE}, method : {TRUE}, sub : {Null}, val : {Num(2)}]
  \cup [id : {0}, err : {FALSE}, method : {FALSE}, sub : {Null}, val : {Num(1)}]

\* The frames that have a method and a non-null params.subscription.
Notifications == {m \in Messages : m.method /\ m.sub # Null}

Min(a, b) == IF a < b THEN a ELSE b

----------------------------------------------------------------------------
(* WsProvider *)

IsOpen == ws # 0 /\ socks[ws] = "open"

\* A closed socket that this.ws no longer refers to is garbage.
Released ==
  IF ws # 0 /\ socks[ws] = "closed" THEN [socks EXCEPT ![ws] = "free"] ELSE socks

FreeSlots == {s \in Slots : Released[s] = "free"}
NewSlot == CHOOSE s \in FreeSlots : \A t \in FreeSlots : s <= t

\* connect(), up to its await: returns at once on an open socket, and
\* otherwise creates a socket, whatever the state of the current one.
connect ==
  IF IsOpen
    THEN UNCHANGED <<socks, ws>>
    ELSE /\ FreeSlots # {}
         /\ socks' = [Released EXCEPT ![NewSlot] = "connecting"]
         /\ ws' = NewSlot

\* A call of send(), of subscribe() or of the closure subscribe call `of`
\* returned; again: an earlier call of that closure had finished by then.
Call(op, of, arg, again) ==
  [op |-> op, pc |-> "connect", sock |-> 0, id |-> 0, of |-> of,
   arg |-> arg, again |-> again, reply |-> "none", val |-> Null]

\* The synchronous part of send(): `await this.connect()`. On an open socket
\* the continuation is queued at once; otherwise it waits for the open event
\* of the socket this very call created.
send(c) ==
  /\ connect
  /\ IF IsOpen
       THEN /\ calls' = Append(calls, [c EXCEPT !.pc = "ready"])
            /\ microtasks' = Append(microtasks, Len(calls) + 1)
       ELSE /\ calls' = Append(calls, [c EXCEPT !.sock = NewSlot])
            /\ UNCHANGED microtasks
  /\ ran' = <<>>
  /\ UNCHANGED <<id, pending, subs, backoff, timers, delays, budget>>

Made(ops) == Cardinality({c \in DOMAIN calls : calls[c].op \in ops})

\* User code calls send(method, params).
Send ==
  /\ Made({"send", "subscribe"}) < budget.calls
  /\ send(Call("send", 0, Null, FALSE))

\* User code calls subscribe(method, unsubscribeMethod, params, cb).
Subscribe ==
  /\ Made({"send", "subscribe"}) < budget.calls
  /\ send(Call("subscribe", 0, Null, FALSE))

\* User code calls the closure that subscribe call k returned.
Unsubscribe ==
  \E k \in DOMAIN calls :
    /\ Made({"unsubscribe"}) < budget.unsubs
    /\ calls[k].op = "subscribe"
    /\ calls[k].pc = "done"
    /\ send(Call("unsubscribe", k, calls[k].val,
                 \E u \in DOMAIN calls : /\ calls[u].op = "unsubscribe"
                                         /\ calls[u].of = k
                                         /\ calls[u].pc = "done"))

\* What this.ws.send(payload) does on a socket in state st: the sets of
\* outcomes. The ws package throws on a connecting socket; on a closed one it
\* throws (ws 7 and earlier) or drops the frame silently (ws 8).
WsSend(st) ==
  CASE st = "open" -> {"sent"}
    [] st = "connecting" -> {"throws"}
    [] OTHER -> {"throws", "sent"}

\* The continuation of send() after `await this.connect()`.
SendResume(c) ==
  /\ id' = id + 1
  /\ \E r \in WsSend(socks[ws]) :
       IF r = "sent"
         THEN /\ pending' = pending \cup {id + 1}
              /\ calls' = [calls EXCEPT ![c].pc = "await", ![c].id = id + 1]
         ELSE /\ calls' = [calls EXCEPT ![c].pc = "failed", ![c].id = id + 1]
              /\ UNCHANGED pending
  /\ UNCHANGED subs

\* The continuation of subscribe() after `await this.send(method, params)`.
SubscribeResume(c) ==
  /\ subs' = [k \in DOMAIN subs \cup {String(calls[c].val)} |->
               IF k = String(calls[c].val) THEN c ELSE subs[k]]
  /\ calls' = [calls EXCEPT ![c].pc = "done"]
  /\ UNCHANGED <<id, pending>>

\* The closure's `finally` block, reached when its send() has completed.
UnsubscribeResume(c) ==
  /\ subs' = [k \in DOMAIN subs \ {String(calls[c].arg)} |-> subs[k]]
  /\ calls' = [calls EXCEPT ![c].pc = "done"]
  /\ UNCHANGED <<id, pending>>

\* The microtask at the head of the queue runs.
Resume ==
  /\ microtasks # <<>>
  /\ LET c == Head(microtasks) IN
       CASE calls[c].pc = "ready" -> SendResume(c)
         [] calls[c].pc = "resolved" /\ calls[c].op = "subscribe" -> SubscribeResume(c)
         [] calls[c].pc = "resolved" /\ calls[c].op = "unsubscribe" -> UnsubscribeResume(c)
         [] OTHER -> /\ calls' = [calls EXCEPT ![c].pc = "done"]
                     /\ UNCHANGED <<id, pending, subs>>
  /\ microtasks' = Tail(microtasks)
  /\ ran' = <<>>
  /\ UNCHANGED <<socks, ws, backoff, timers, delays, budget>>

\* The call that awaits connect() on socket s, if any.
Awaiting(s) == {c \in DOMAIN calls : calls[c].pc = "connect" /\ calls[c].sock = s}

\* ws.onopen of socket s.
Open(s) ==
  /\ microtasks = <<>>
  /\ socks[s] = "connecting"
  /\ socks' = [socks EXCEPT ![s] = "open"]
  /\ backoff' = InitialBackoff
  /\ delays' = <<>>
  /\ calls' = [c \in DOMAIN calls |->
                IF c \in Awaiting(s)
                  THEN [calls[c] EXCEPT !.pc = "ready", !.sock = 0]
                  ELSE calls[c]]
  /\ microtasks' = IF Awaiting(s) = {} THEN microtasks
                   ELSE <<CHOOSE c \in Awaiting(s) : TRUE>>
  /\ ran' = <<>>
  /\ UNCHANGED <<ws, id, pending, subs, timers, budget>>

\* A doubling without the cap, for comparison.
NextBackoffUncapped(b) == b * 2

\* Math.min(this.backoff * 2, 10_000)
NextBackoff(b) == Min(b * 2, BackoffCap)

\* An onClose() that would also drop the pending requests, for comparison.
onCloseDropping ==
  /\ timers' = timers + 1
  /\ backoff' = NextBackoff(backoff)
  /\ delays' = Append(delays, backoff)
  /\ pending' = {}
  /\ UNCHANGED <<id, subs>>

\* onClose(): this.reconnect is never cleared.
onClose ==
  /\ timers' = timers + 1
  /\ backoff' = NextBackoff(backoff)
  /\ delays' = Append(delays, backoff)
  /\ UNCHANGED <<id, pending, subs>>

\* ws.onclose of socket s: a failed connection attempt or a dropped socket.
\* The promise of the connect() call that created s is then never settled.
Close(s) ==
  /\ microtasks = <<>>
  /\ socks[s] \in {"connecting", "open"}
  /\ timers < MaxTimers
  /\ Len(delays) < budget.drops
  /\ socks' = [socks EXCEPT ![s] = IF s = ws THEN "closed" ELSE "free"]
  /\ calls' = [c \in DOMAIN calls |->
                IF c \in Awaiting(s)
                  THEN [calls[c] EXCEPT !.pc = "hung", !.sock = 0]
                  ELSE calls[c]]
  /\ onClose
  /\ ran' = <<>>
  /\ UNCHANGED <<ws, microtasks, budget>>

\* A reconnect timer fires: () => this.connect().catch(() => {}).
Timer ==
  /\ microtasks = <<>>
  /\ timers > 0
  /\ timers' = timers - 1
  /\ connect
  /\ ran' = <<>>
  /\ UNCHANGED <<id, pending, subs, backoff, calls, microtasks, delays, budget>>

\* A test that would let a message with an id be a response, for comparison.
IsNotificationWithoutId(m) == m.id = 0 /\ m.method /\ m.sub # Null

\* "method" in msg && msg.method && "params" in msg && params?.subscription != null
IsNotification(m) == m.method /\ m.sub # Null

\* The call whose resolver this.pending holds under k.
Owner(k) == CHOOSE c \in DOMAIN calls : calls[c].id = k /\ calls[c].pc = "await"

\* onMessage(evt), evt carrying message m. An RPC error is thrown out of the
\* event callback: the resolver is dropped and the call is never completed.
onMessage(m) ==
  IF IsNotification(m)
    THEN /\ ran' = IF String(m.sub) \in DOMAIN subs
                     THEN <<[h |-> subs[String(m.sub)], arg |-> m.val]>>
                     ELSE <<>>
         /\ UNCHANGED <<pending, calls, microtasks>>
    ELSE IF m.id # 0 /\ m.id \in pending
      THEN /\ pending' = pending \ {m.id}
           /\ ran' = <<>>
           /\ IF m.err
                THEN /\ calls' = [calls EXCEPT ![Owner(m.id)].reply = "error"]
                     /\ UNCHANGED microtasks
                ELSE /\ calls' = [calls EXCEPT ![Owner(m.id)].reply = "result",
                                               ![Owner(m.id)].pc = "resolved",
                                               ![Owner(m.id)].val = m.val]
                     /\ microtasks' = Append(microtasks, Owner(m.id))
      ELSE /\ ran' = <<>>
           /\ UNCHANGED <<pending, calls, microtasks>>

\* A frame arrives on an open socket (every socket created has onmessage
\* attached). Frames that arrive in one chunk are dispatched one after the
\* other, before the continuations the earlier ones made ready.
Deliver(m) ==
  /\ \E s \in Slots : socks[s] = "open"
  /\ onMessage(m)
  /\ UNCHANGED <<socks, ws, id, subs, backoff, timers, delays, budget>>

----------------------------------------------------------------------------
(* Extrinsic identification: packages/scale and Qapi.codec *)

\* The outcome of a call: it threw, or it returned a value.
Thrown == [st |-> "threw"]
Returned(v) == [st |-> "returned", val |-> v]
Idle == [st |-> "idle"]

\* A JavaScript string, as the sequence of the pieces it is made of; the
\* empty string is the empty sequence.
Text(s) == IF s = "" THEN <<>> ELSE <<s>>

\* `unknown(${i})`
unknown(i) == <<"unknown(", ToString(i), ")">>

\* The bytes the inputs are built from: 0 (compact mode 0, unsigned version,
\* index 0), 1 (mode 1), 2 (mode 2), 255 (mode 3, signed version, index 255).
Bytes == {0, 1, 2, 255}

\* What tablesForBlock() gives: undefined, or a MetaTables.
NoTable == [some |-> FALSE, pallets |-> <<>>]
Pallet(name, index, hasCalls, callNames) ==
  [name |-> Text(name), index |-> index, hasCalls |-> hasCalls, calls |-> callNames]
MetaTables(pallets) == [some |-> TRUE, pallets |-> pallets]

ExampleTable ==
  MetaTables(<<Pallet("System", 0, TRUE,
                      <<Text("remark"), Text("set_heap_pages"), Text("set_code")>>),
               Pallet("Timestamp", 1, TRUE, <<Text("set")>>),
               Pallet("Balances", 2, FALSE, <<>>)>>)

\* Two entries with the same index.
DuplicateTable ==
  MetaTables(<<Pallet("System", 0, TRUE, <<Text("remark")>>),
               Pallet("Shadow", 0, TRUE, <<Text("a"), Text("b")>>)>>)

\* A table with the placeholder readPallets leaves for an unreadable record.
PlaceholderTable ==
  MetaTables(<<Pallet("System", 0, TRUE, <<Text("remark")>>),
               Pallet("pallet_1", 255, FALSE, <<>>)>>)

\* A table read from metadata in which a pallet record and a variant carry a
\* text of length 0: Reader.text() gives the empty string.
EmptyNameTable ==
  MetaTables(<<Pallet("", 0, TRUE, <<Text(""), Text("remark")>>),
               Pallet("Timestamp", 1, TRUE, <<Text("set")>>)>>)

Tables == {NoTable, ExampleTable, DuplicateTable, PlaceholderTable,
           EmptyNameTable}

\* hexToU8a(hex), hex given as the digits that follow "0x".
hexToU8a(h) ==
  IF Len(h) % 2 # 0
    THEN Thrown
    ELSE Returned([i \in 1..(Len(h) \div 2) |-> 16 * h[2 * i - 1] + h[2 * i]])

\* bytes[i] of a Uint8Array, i counted from 0 (the caller checked the range).
At(bytes, i) == bytes[i + 1]

\* decodeCompactU32(bytes, offset): [value, bytes consumed].
decodeCompactU32(bytes, offset) ==
  IF ~(offset >= 0 /\ offset < Len(bytes))
    THEN Thrown
    ELSE LET first == At(bytes, offset)
             mode == first % 4
         IN CASE mode = 0 -> Returned(<<first \div 4, 1>>)
              [] mode = 1 ->
                   IF ~(offset + 1 < Len(bytes))
                     THEN Thrown
                     ELSE Returned(<<(first \div 4) + At(bytes, offset + 1) * 64, 2>>)
              [] mode = 2 ->
                   IF ~(offset + 3 < Len(bytes))
                     THEN Thrown
                     ELSE Returned(<<(first \div 4)
                                       + At(bytes, offset + 1) * 64
                                       + At(bytes, offset + 2) * 16384
                                       + At(bytes, offset + 3) * 4194304, 4>>)
              [] OTHER -> Thrown

\* A prefix reader whose offset would be that of the version byte, for
\* comparison.
readExtrinsicPrefixAtVersion(u8) ==
  LET d == decodeCompactU32(u8, 0) IN
    IF d.st = "threw"
      THEN Thrown
      ELSE LET len == d.val[1]
               lenBytes == d.val[2]
           IN IF ~(lenBytes < Len(u8))
                THEN Thrown
                ELSE LET version == At(u8, lenBytes) IN
                       Returned([len |-> len, version |-> version,
                                 isSigned |-> (version \div 128) % 2 = 1,
                                 offset |-> lenBytes])

\* readExtrinsicPrefix(u8)
readExtrinsicPrefix(u8) ==
  LET d == decodeCompactU32(u8, 0) IN
    IF d.st = "threw"
      THEN Thrown
      ELSE LET len == d.val[1]
               lenBytes == d.val[2]
           IN IF ~(lenBytes < Len(u8))
                THEN Thrown
                ELSE LET version == At(u8, lenBytes) IN
                       Returned([len |-> len, version |-> version,
                                 isSigned |-> (version \div 128) % 2 = 1,
                                 offset |-> lenBytes + 1])

\* u8[i] ?? 0xff
OrFF(u8, i) == IF i < Len(u8) THEN At(u8, i) ELSE 255

\* pallets.find((p) => p.index === idx): the position of the first match, 0
\* when there is none.
find(pallets, idx) ==
  IF \E k \in DOMAIN pallets : pallets[k].index = idx
    THEN CHOOSE k \in DOMAIN pallets :
           /\ pallets[k].index = idx
           /\ \A j \in DOMAIN pallets : pallets[j].index = idx => k <= j
    ELSE 0

\* codec.decodeExtrinsicName(hex), t being what tablesForBlock() gave. The
\* member `reason` is "none" when the returned object has no such member.
decodeExtrinsicName(h, t) ==
  LET b == hexToU8a(h) IN
    IF b.st = "threw" THEN Thrown
    ELSE LET u8 == b.val
             p == readExtrinsicPrefix(u8)
         IN IF p.st = "threw" THEN Thrown
            ELSE LET isSigned == p.val.isSigned
                     offset == p.val.offset
                     palletIdx == OrFF(u8, offset)
                     callIdx == OrFF(u8, offset + 1)
                 IN IF ~t.some
                      THEN Returned([pallet |-> unknown(palletIdx),
                                     method |-> unknown(callIdx),
                                     signed |-> isSigned,
                                     reason |-> "no-metadata"])
                      ELSE LET k == find(t.pallets, palletIdx)
                               hasMethod == /\ k # 0
                                            /\ t.pallets[k].hasCalls
                                            /\ callIdx < Len(t.pallets[k].calls)
                           IN Returned(
                                [pallet |-> IF k # 0 THEN t.pallets[k].name
                                            ELSE unknown(palletIdx),
                                 method |-> IF hasMethod
                                              THEN t.pallets[k].calls[callIdx + 1]
                                              ELSE unknown(callIdx),
                                 signed |-> isSigned,
                                 reason |-> IF isSigned THEN "signed-not-parsed"
                                            ELSE "none"])

\* The caller builds the hex string: one more byte.
AppendByte(b) ==
  /\ out = Idle
  /\ Len(hex) % 2 = 0
  /\ Len(hex) < 2 * MaxBytes
  /\ hex' = hex \o <<b \div 16, b % 16>>
  /\ UNCHANGED <<table, out>>

\* The caller builds the hex string: a last digit without its pair.
AppendDigit(d) ==
  /\ out = Idle
  /\ Len(hex) % 2 = 0
  /\ Len(hex) < 2 * MaxBytes
  /\ hex' = Append(hex, d)
  /\ UNCHANGED <<table, out>>

\* The caller awaits codec.decodeExtrinsicName(hex).
DecodeExtrinsicName ==
  /\ out = Idle
  /\ out' = decodeExtrinsicName(hex, table)
  /\ UNCHANGED <<hex, table>>

----------------------------------------------------------------------------
(* The facade: Qapi.connect, fetchRuntime and Qapi.tablesForBlock *)

\* How a send() of the WsProvider ends for the kind of its end: the node
\* answers with a result; the node answers with an error, which onMessage
\* throws out of the socket callback; or ws.send() throws inside send().
Settles(k) ==
  CASE k = "result" -> "resolved"
    [] k = "threw" -> "rejected"
    [] OTHER -> "never"
AnswerKinds == {"result", "error", "threw"}

\* The spec versions a node reports; NoSpec: the answer has no specVersion.
SpecVersions == {0, 1}
NoSpec == -1

\* The metadata blobs a node serves, named by what the reader makes of them.
Metas == {"bad", "example", "duplicate"}

\* extractMetaTables(meta)
extractMetaTables(meta) ==
  CASE meta = "example" -> Returned(ExampleTable)
    [] meta = "duplicate" -> Returned(DuplicateTable)
    [] OTHER -> Thrown

\* The optional module @qapish/metadata-polkadot: not installed, installed
\* with an extractMetaTablesCompat that throws, or with one that gives a table.
Compats == {"absent", "throws", "yields"}
extractMetaTablesCompat(meta) == Returned(PlaceholderTable)

\* tryExtract(meta, extractMetaTables); NoTable for undefined.
tryExtract(meta, compat) ==
  LET t == extractMetaTables(meta) IN
    IF t.st = "returned" THEN t.val
    ELSE IF compat = "yields" THEN extractMetaTablesCompat(meta).val
    ELSE NoTable

\* A connect that would install the example table when no parser gives
\* one, for comparison.
connectTablesDefaulting(meta, compat, overrides) ==
  LET t == tryExtract(meta, compat) IN IF t.some THEN t ELSE ExampleTable

\* The table Qapi.connect installs as latest and in the cache, NoTable when
\* it installs none; the overrides are not looked at.
connectTables(meta, compat, overrides) ==
  LET t == extractMetaTables(meta) IN
    IF t.st = "returned" THEN t.val
    ELSE IF compat = "yields" THEN extractMetaTablesCompat(meta).val
    ELSE NoTable

\* What Qapi.connect is given (overrides.metadata.tables, NoTable for
\* none), the optional module, and the number of tablesForBlock calls the
\* run makes at most: none on a facade of any kind, or MaxLookups on a facade
\* made without overrides.
Configs ==
       [overrides : {NoTable, ExampleTable}, compat : Compats, lookups : {0}]
  \cup [overrides : {NoTable}, compat : {"absent", "yields"},
        lookups : {MaxLookups}]

\* map.set(k, v)
MapSet(map, k, v) == [j \in DOMAIN map \cup {k} |-> IF j = k THEN v ELSE map[j]]

\* User code calls Qapi.connect(cfg): provider.connect(), then fetchRuntime
\* sends its three requests.
QConnect ==
  /\ api = "none"
  /\ api' = "connecting"
  /\ UNCHANGED <<cfg, runtime, tablesLatest, tablesBySpec, tasks>>

\* The three requests of fetchRuntime have ended, state_getRuntimeVersion as
\* kv (with v), state_getMetadata as km (with m), system_properties as kp.
ConnectResume(kv, v, km, m, kp) ==
  /\ api = "connecting"
  /\ IF "never" \in {Settles(kv), Settles(km), Settles(kp)}
       THEN /\ api' = "hung"
            /\ UNCHANGED <<runtime, tablesLatest, tablesBySpec>>
       ELSE IF "rejected" \in {Settles(kv), Settles(km)}
         THEN /\ api' = "failed"
              /\ UNCHANGED <<runtime, tablesLatest, tablesBySpec>>
         ELSE LET specVersion == IF v = NoSpec THEN 0 ELSE v
                  installed == connectTables(m, cfg.compat, cfg.overrides)
              IN /\ api' = "ready"
                 /\ runtime' = [specVersion |-> specVersion, metadata |-> m,
                                ss58Prefix |-> IF Settles(kp) = "resolved"
                                                 THEN "set" ELSE "unset"]
                 /\ tablesLatest' = installed
                 /\ tablesBySpec' = IF installed.some
                                      THEN MapSet(tablesBySpec, specVersion, installed)
                                      ELSE tablesBySpec
  /\ UNCHANGED <<cfg, tasks>>

\* A tablesForBlock(hash) call, hash given. pc: "version" while its
\* state_getRuntimeVersion request is out, "metadata" while its
\* state_getMetadata request is out (spec: the version it got, failed: the
\* first request was rejected), "done" when it has returned ret, "hung" when
\* it waits for ever.
Task(pc, spec, failed, ret) ==
  [pc |-> pc, spec |-> spec, failed |-> failed, ret |-> ret]

Lookup ==
  /\ api = "ready"
  /\ Len(tasks) < cfg.lookups
  /\ tasks' = Append(tasks, Task("version", NoSpec, FALSE, NoTable))
  /\ UNCHANGED <<cfg, api, runtime, tablesLatest, tablesBySpec>>

\* The state_getRuntimeVersion request of call i has ended as k, with v.
VersionAnswer(i, k, v) ==
  /\ tasks[i].pc = "version"
  /\ IF Settles(k) = "never"
       THEN tasks' = [tasks EXCEPT ![i] = Task("hung", NoSpec, FALSE, NoTable)]
       ELSE LET spec == IF Settles(k) = "resolved" THEN v ELSE NoSpec IN
              IF spec # NoSpec /\ spec # 0 /\ spec \in DOMAIN tablesBySpec
                THEN tasks' = [tasks EXCEPT
                                 ![i] = Task("done", NoSpec, FALSE, tablesBySpec[spec])]
                ELSE tasks' = [tasks EXCEPT
                                 ![i] = Task("metadata", spec,
                                             Settles(k) = "rejected", NoTable)]
  /\ UNCHANGED <<cfg, api, runtime, tablesLatest, tablesBySpec>>

\* The state_getMetadata request of call i has ended as k, with m.
MetadataAnswer(i, k, m) ==
  /\ tasks[i].pc = "metadata"
  /\ IF Settles(k) = "never"
       THEN /\ tasks' = [tasks EXCEPT ![i] = Task("hung", NoSpec, FALSE, NoTable)]
            /\ UNCHANGED tablesBySpec
       ELSE IF Settles(k) = "rejected"
         THEN /\ tasks' = [tasks EXCEPT
                             ![i] = Task("done", NoSpec, FALSE, tablesLatest)]
              /\ UNCHANGED tablesBySpec
         ELSE LET t == tryExtract(m, cfg.compat)
                  spec == tasks[i].spec
                  stores == t.some /\ spec # NoSpec /\ spec # 0
              IN /\ tablesBySpec' = IF stores THEN MapSet(tablesBySpec, spec, t)
                                    ELSE tablesBySpec
                 /\ tasks' = [tasks EXCEPT
                                ![i] = Task("done", NoSpec, FALSE,
                                            IF t.some THEN t ELSE tablesLatest)]
  /\ UNCHANGED <<cfg, api, runtime, tablesLatest>>

\* The hex strings the caller asks about: an unsigned and a signed call 0 of
\* pallet 0, one that ends after the version byte, the empty one.
Extrinsics ==
  {<<0, 0, 0, 0, 0, 0, 0, 0>>, <<0, 0, 15, 15, 0, 0, 0, 0>>,
   <<0, 0, 0, 0, 0, 1, 0, 2>>, <<0, 0, 0, 0>>, <<>>}

\* The caller awaits codec.decodeExtrinsicName(h), without `at`:
\* tablesForBlock(undefined) gives this.tablesLatest.
Identify(h) ==
  /\ api = "ready"
  /\ tasks = <<>>
  /\ out = Idle
  /\ hex' = h
  /\ table' = tablesLatest
  /\ out' = decodeExtrinsicName(h, tablesLatest)

----------------------------------------------------------------------------
(* blocks.get *)

\* for (let i = 0; i < 4 && ...): the retries after the first attempt.
Retries == 4

\* setTimeout(r, 150): the wait before each retry, in ms.
RetryDelay == 150

\* A value of the call: null (n = 0), the node's {block: ...} with block n
\* (n = 0 for block: null), a block object n with its header and extrinsics
\* ("block" when taken out of full.block, "flat" when the node answered
\* with it directly), or the {header, extrinsics: []} made from header n.
Full(shape, n) == [shape |-> shape, n |-> n]

\* What the node answers chain_getBlock with.
BlockAnswers ==
       {Full("null", 0)}
  \cup {Full("wrapper", b) : b \in 0..MaxBlocks}
  \cup {Full("flat", b) : b \in 1..MaxBlocks}

\* full != null && full.block != null
hasBlock(full) == full.shape = "wrapper" /\ full.n # 0

\* A loop that would go round once more, for comparison.
tryAgainOnceMore(full, i) == i <= Retries /\ ~hasBlock(full)

\* The loop condition: i < 4 && (full == null || full.block == null).
tryAgain(full, i) == i < Retries /\ ~hasBlock(full)

\* The blocks.get call: where it stands, the chain_getBlock and
\* chain_getHeader requests it has sent, the waits it has made, the answers
\* to chain_getBlock it has had and the value it returned.
GetCall(pc, sent, headers, waited, answers, ret) ==
  [pc |-> pc, sent |-> sent, headers |-> headers, waited |-> waited,
   answers |-> answers, ret |-> ret]

\* blocks.get(numberOrHash): a number is first resolved with
\* chain_getBlockHash, a hash goes to the first chain_getBlock.
Get(byNumber) ==
  /\ get.pc = "idle"
  /\ get' = IF byNumber
              THEN [get EXCEPT !.pc = "hash"]
              ELSE [get EXCEPT !.pc = "block", !.sent = 1]

\* chain_getBlockHash is answered (k: with a result, with an RPC error, or
\* the send is rejected).
HashAnswer(k) ==
  /\ get.pc = "hash"
  /\ get' = IF Settles(k) = "resolved"
              THEN [get EXCEPT !.pc = "block", !.sent = 1]
            ELSE IF Settles(k) = "rejected"
              THEN [get EXCEPT !.pc = "failed"]
            ELSE [get EXCEPT !.pc = "hung"]

\* chain_getBlock is answered with full: the loop condition is evaluated
\* with i the number of retries made; then either the wait of the next
\* retry starts, or the block or full is returned, or chain_getHeader is
\* sent.
BlockAnswer(k, full) ==
  /\ get.pc = "block"
  /\ get' =
       IF Settles(k) = "rejected" THEN [get EXCEPT !.pc = "failed"]
       ELSE IF Settles(k) = "never" THEN [get EXCEPT !.pc = "hung"]
       ELSE LET g == [get EXCEPT !.answers = Append(@, full)] IN
         IF tryAgain(full, Len(get.answers))
           THEN [g EXCEPT !.pc = "wait"]
         ELSE IF hasBlock(full)
           THEN [g EXCEPT !.pc = "returned", !.ret = Full("block", full.n)]
         ELSE IF full.shape # "null"
           THEN [g EXCEPT !.pc = "returned", !.ret = full]
         ELSE [g EXCEPT !.pc = "header", !.headers = @ + 1]

\* The 150 ms timer of a retry fires and chain_getBlock is sent again.
Wait ==
  /\ get.pc = "wait"
  /\ get' = [get EXCEPT !.pc = "block", !.sent = @ + 1,
                        !.waited = Append(@, RetryDelay)]

\* chain_getHeader is answered with header h.
HeaderAnswer(k, h) ==
  /\ get.pc = "header"
  /\ get' = IF Settles(k) = "resolved"
              THEN [get EXCEPT !.pc = "returned", !.ret = Full("degraded", h)]
            ELSE IF Settles(k) = "rejected"
              THEN [get EXCEPT !.pc = "failed"]
            ELSE [get EXCEPT !.pc = "hung"]

----------------------------------------------------------------------------
(* Call and event names of a pallet *)

\* An entry of the type registry: a Variant with its variants in the order
\* they were read, each {name, index}, or any other kind of type.
TypeDef(kind, variants) == [kind |-> kind, variants |-> variants]

\* The names the variants of the model carry.
VariantNames == {"remark", "set"}

\* The result of variantNamesFrom: a sequence of names, or undefined.
NoNames == [some |-> FALSE, names |-> <<>>]
Names(ns) == [some |-> TRUE, names |-> ns]

\* One step of the (stable) sort: v goes behind the variants whose index is
\* not larger.
insert(ordered, v) ==
  LET k == Cardinality({j \in DOMAIN ordered : ordered[j].index <= v.index}) IN
    SubSeq(ordered, 1, k) \o <<v>> \o SubSeq(ordered, k + 1, Len(ordered))

\* [...def.variants].sort((a, b) => a.index - b.index)
RECURSIVE sort(_)
sort(variants) ==
  IF variants = <<>> THEN <<>>
  ELSE insert(sort(SubSeq(variants, 1, Len(variants) - 1)),
              variants[Len(variants)])

\* variantNamesFrom(reg, typeId) with d the registry entry of typeId.
variantNamesFrom(d) ==
  IF d.kind # "Variant" THEN NoNames
  ELSE LET ordered == sort(d.variants) IN
         Names([j \in DOMAIN ordered |-> ordered[j].name])

\* The registry entry is a Variant type.
DeclareVariant ==
  /\ names = Idle
  /\ def.kind = "Other"
  /\ def' = TypeDef("Variant", <<>>)
  /\ UNCHANGED names

\* The reader has read one more variant of the type.
AddVariant(name, index) ==
  /\ names = Idle
  /\ def.kind = "Variant"
  /\ Len(def.variants) < MaxVariants
  /\ def' = [def EXCEPT !.variants = Append(@, [name |-> name, index |-> index])]
  /\ UNCHANGED names

\* readOnePallet resolves callsTy (eventsTy) to names.
VariantNamesFrom ==
  /\ names = Idle
  /\ names' = Returned(variantNamesFrom(def))
  /\ UNCHANGED def

----------------------------------------------------------------------------
(* The pallet pass of the metadata reader *)

\* A pallet record of the input, by what readOnePallet meets in it: the
\* name and the storage member can be read or not (these reads are not
\* guarded); the index byte is there, or missing (255 is what is left then).
\* The records of the model declare no calls and no events.
PalletRecords ==
  [readable : BOOLEAN, name : {"System", "Timestamp"}, index : {0, 1, 255}]

\* readOnePallet(r, reg) on record rec.
readOnePallet(rec) ==
  IF ~rec.readable THEN Thrown
  ELSE Returned(Pallet(rec.name, rec.index, FALSE, <<>>))

\* { name: `pallet_${i}`, index: 255 }
placeholder(i) ==
  [name |-> <<"pallet_", ToString(i)>>, index |-> 255, hasCalls |-> FALSE,
   calls |-> <<>>]

\* A loop body that would count the placeholders from 1, for comparison.
readPalletCountingFromOne(rec, i) ==
  LET p == readOnePallet(rec) IN
    IF p.st = "threw" THEN placeholder(i + 1) ELSE p.val

\* The body of the loop of readPallets: out[i] for record rec.
readPallet(rec, i) ==
  LET p == readOnePallet(rec) IN
    IF p.st = "threw" THEN placeholder(i) ELSE p.val

\* The pass: its state, the declared count, the records met so far and out.
Pass(st, len, records, entries) ==
  [st |-> st, len |-> len, records |-> records, out |-> entries]

\* readPallets(r, reg) reads the count; the count itself may be unreadable,
\* and a count of 0 returns the empty array.
ReadPallets ==
  /\ pass.st = "idle"
  /\ \/ pass' = Pass("threw", 0, <<>>, <<>>)
     \/ \E len \in 0..MaxPallets :
          pass' = Pass(IF len = 0 THEN "returned" ELSE "reading", len, <<>>, <<>>)

\* One round of the loop, the reader standing before record rec.
ReadOnePallet(rec) ==
  /\ pass.st = "reading"
  /\ LET i == Len(pass.out)
         entries == Append(pass.out, readPallet(rec, i))
     IN pass' = Pass(IF Len(entries) = pass.len THEN "returned" ELSE "reading",
                     pass.len, Append(pass.records, rec), entries)

----------------------------------------------------------------------------
(* Compact<u32> encoding: packages/scale *)

\* value << 2 on 32-bit integers, for 0 <= value < 2^30: bit 29 of value
\* becomes the sign bit.
ShiftLeft2(value) ==
  IF value < 2^29 THEN value * 4
  ELSE ((value - 2^29) * 4 - 2^30) - 2^30

\* v | mode on 32-bit integers, mode being one of 0b00, 0b01, 0b10: the two
\* low bits of v (in two's complement, v % 4) are or-ed with those of mode.
OrMode(v, mode) ==
  LET low == v % 4
      bit0 == IF low % 2 = 1 \/ mode % 2 = 1 THEN 1 ELSE 0
      bit1 == IF low \div 2 = 1 \/ mode \div 2 = 1 THEN 2 ELSE 0
  IN (v - low) + bit1 + bit0

\* (v >> k) & 0xff on 32-bit integers: the shift keeps the sign, the mask
\* takes the low byte of the two's complement.
ByteAt(v, k) == (v \div 2^k) % 256

\* The element a Uint8Array stores when given x.
U8(x) == x % 256

\* An encoder whose one-byte mode would reach to 1 << 7, for comparison.
encodeCompactU32Wide(value) ==
  IF value < 0 THEN Thrown
  ELSE IF value < 128 THEN Returned(<<U8(OrMode(ShiftLeft2(value), 0))>>)
  ELSE IF value < 16384
    THEN LET v == OrMode(ShiftLeft2(value), 1) IN
           Returned(<<U8(ByteAt(v, 0)), U8(ByteAt(v, 8))>>)
  ELSE IF value < 2^30
    THEN LET v == OrMode(ShiftLeft2(value), 2) IN
           Returned(<<U8(ByteAt(v, 0)), U8(ByteAt(v, 8)), U8(ByteAt(v, 16)),
                      U8(ByteAt(v, 24))>>)
  ELSE Thrown

\* encodeCompactU32(value)
encodeCompactU32(value) ==
  IF value < 0 THEN Thrown
  ELSE IF value < 64 THEN Returned(<<U8(OrMode(ShiftLeft2(value), 0))>>)
  ELSE IF value < 16384
    THEN LET v == OrMode(ShiftLeft2(value), 1) IN
           Returned(<<U8(ByteAt(v, 0)), U8(ByteAt(v, 8))>>)
  ELSE IF value < 2^30
    THEN LET v == OrMode(ShiftLeft2(value), 2) IN
           Returned(<<U8(ByteAt(v, 0)), U8(ByteAt(v, 8)), U8(ByteAt(v, 16)),
                      U8(ByteAt(v, 24))>>)
  ELSE Thrown

\* The values given to the encoder: those around the boundaries of the modes
\* and of the range.
Values ==
  UNION {(b - Spread)..(b + Spread) : b \in {0, 64, 16384, 2^29, 2^30}}

\* A round trip: the value, what the encoder gave and what the decoder gave.
RoundTrip(st, value, enc, dec) ==
  [st |-> st, value |-> value, enc |-> enc, dec |-> dec]

\* encodeCompactU32(value) is called.
Encode ==
  /\ compact.st = "idle"
  /\ compact' = [compact EXCEPT !.st = "encoded",
                                !.enc = encodeCompactU32(compact.value)]

\* decodeCompactU32(bytes) is called on the bytes the encoder returned.
Decode ==
  /\ compact.st = "encoded"
  /\ compact.enc.st = "returned"
  /\ compact' = [compact EXCEPT !.st = "decoded",
                                !.dec = decodeCompactU32(compact.enc.val, 0)]

----------------------------------------------------------------------------
(* The registry pass of the metadata reader *)

\* if (consecutiveFailures > 5) break
FailureLimit == 5

\* A Variant type as readPortableType returns it; any other type, and the
\* placeholder of a failed type, is {kind: "Other"}.
VariantDef == TypeDef("Variant", <<[name |-> "remark", index |-> 0]>>)
OtherDef == TypeDef("Other", <<>>)

\* The pass: the declared count, the ordinal i of the loop, by how many ids
\* the stream is ahead of the ordinals after resyncs that landed on a later
\* type, the map m, and the counter of the loop.
Registry(st, len, i, ahead, m, consecutiveFailures) ==
  [st |-> st, len |-> len, i |-> i, ahead |-> ahead, m |-> m,
   consecutiveFailures |-> consecutiveFailures]

\* The end of the pass after ordinal i: the loop is over, or goes on.
EndOf(len, i) == IF i + 1 < len THEN "reading" ELSE "returned"

\* readPortableRegistryWithFallback(r) reads the count; with no type at all
\* it throws (m.size === 0).
ReadRegistry ==
  /\ registry.st = "idle"
  /\ \E len \in 0..MaxTypes :
       registry' = Registry(IF len = 0 THEN "threw" ELSE "reading",
                            len, 0, 0, <<>>, 0)

\* readPortableType(r) returns the type the reader stands before; its id is
\* the one the stream carries there.
TypeParses(d) ==
  /\ registry.st = "reading"
  /\ registry' = Registry(EndOf(registry.len, registry.i), registry.len,
                          registry.i + 1, registry.ahead,
                          MapSet(registry.m, registry.i + registry.ahead, d), 0)

\* readPortableType(r) throws: the placeholder is set under the ordinal,
\* then the loop breaks on the counter, or tryRecoverToNextType finds a
\* header (that of the expected id, or of a later id below the count) or
\* none.
TypeFails(recovered, later) ==
  /\ registry.st = "reading"
  /\ later => (recovered /\ registry.i + registry.ahead + 2 < registry.len)
  /\ LET failures == registry.consecutiveFailures + 1
         m == MapSet(registry.m, registry.i, OtherDef)
         more == registry.i + 1 < registry.len
     IN IF failures > FailureLimit \/ (more /\ ~recovered)
          THEN registry' = Registry("returned", registry.len, registry.i,
                                    registry.ahead, m, failures)
          ELSE registry' = Registry(EndOf(registry.len, registry.i),
                                    registry.len, registry.i + 1,
                                    IF more /\ later
                                      THEN registry.ahead + 1
                                      ELSE registry.ahead,
                                    m, failures)

----------------------------------------------------------------------------
(* chainHead.subscribe *)

\* The subscription: for each notification, in the order of arrival, whether
\* the head carried a hash; the heads whose handler awaits the answer to its
\* chain_getBlockHash request; and the heads cb was called with, in the
\* order of the calls. A head is named by its place in the arrivals.
Heads(notified, waiting, called) ==
  [notified |-> notified, waiting |-> waiting, called |-> called]

\* A new-head notification reaches the handler: with head.hash the handler
\* calls cb before it returns, without it the handler sends
\* chain_getBlockHash and awaits the answer.
NewHead(hasHash) ==
  /\ Len(heads.notified) < MaxHeads
  /\ LET n == Len(heads.notified) + 1 IN
       heads' = Heads(Append(heads.notified, hasHash),
                      IF hasHash THEN heads.waiting ELSE heads.waiting \cup {n},
                      IF hasHash THEN Append(heads.called, n) ELSE heads.called)

\* The chain_getBlockHash request of head n is answered: with a result the
\* handler goes on to call cb; otherwise cb is not called for n.
HashOfHead(n, k) ==
  /\ n \in heads.waiting
  /\ heads' = Heads(heads.notified, heads.waiting \ {n},
                    IF Settles(k) = "resolved"
                      THEN Append(heads.called, n) ELSE heads.called)

----------------------------------------------------------------------------
WsStart ==
  /\ socks = [s \in Slots |-> "free"]
  /\ ws = 0
  /\ id = 0
  /\ pending = {}
  /\ subs = <<>>
  /\ backoff = InitialBackoff
  /\ timers = 0
  /\ calls = <<>>
  /\ microtasks = <<>>
  /\ ran = <<>>
  /\ delays = <<>>

XIdle ==
  /\ hex = <<>>
  /\ table = NoTable
  /\ out = Idle

\* No facade has been made.
QIdle ==
  /\ cfg = [overrides |-> NoTable, compat |-> "absent", lookups |-> 0]
  /\ api = "none"
  /\ runtime = [specVersion |-> 0, metadata |-> "bad", ss58Prefix |-> "unset"]
  /\ tablesLatest = NoTable
  /\ tablesBySpec = <<>>
  /\ tasks = <<>>

\* blocks.get has not been called.
BIdle == get = GetCall("idle", 0, 0, <<>>, <<>>, Full("null", 0))

VIdle ==
  /\ def = TypeDef("Other", <<>>)
  /\ names = Idle

\* readPallets has not been called.
PIdle == pass = Pass("idle", 0, <<>>, <<>>)

\* The registry pass has not been started.
RIdle == registry = Registry("idle", 0, 0, 0, <<>>, 0)

\* No value is being encoded.
CIdle == compact = RoundTrip("idle", 0, Idle, Idle)

\* No head has been notified.
HIdle == heads = Heads(<<>>, {}, <<>>)

\* A provider that has just been constructed; no extrinsic is identified.
Init ==
  /\ WsStart
  /\ budget \in Budgets
  /\ XIdle
  /\ QIdle
  /\ BIdle
  /\ VIdle
  /\ PIdle
  /\ RIdle
  /\ CIdle
  /\ HIdle

Next ==
  \/ Send /\ UNCHANGED <<xVars, qVars, bVars, vVars, pVars, rVars, cVars, hVars>>
  \/ Subscribe /\ UNCHANGED <<xVars, qVars, bVars, vVars, pVars, rVars, cVars, hVars>>
  \/ Unsubscribe /\ UNCHANGED <<xVars, qVars, bVars, vVars, pVars, rVars, cVars, hVars>>
  \/ Resume /\ UNCHANGED <<xVars, qVars, bVars, vVars, pVars, rVars, cVars, hVars>>
  \/ \E s \in Slots : Open(s) /\ UNCHANGED <<xVars, qVars, bVars, vVars, pVars, rVars, cVars, hVars>>
  \/ \E s \in Slots : Close(s) /\ UNCHANGED <<xVars, qVars, bVars, vVars, pVars, rVars, cVars, hVars>>
  \/ Timer /\ UNCHANGED <<xVars, qVars, bVars, vVars, pVars, rVars, cVars, hVars>>
  \/ \E m \in Messages : Deliver(m) /\ UNCHANGED <<xVars, qVars, bVars, vVars, pVars, rVars, cVars, hVars>>

Spec == Init /\ [][Next]_vars

\* The facade holds a table or none, and identifies one extrinsic; the
\* transport is not used.
wsVars == <<socks, ws, id, pending, subs, backoff, timers, calls, microtasks,
            ran, delays, budget>>

InitX ==
  /\ WsStart
  /\ budget = [calls |-> 0, unsubs |-> 0, drops |-> 0]
  /\ hex = <<>>
  /\ table \in Tables
  /\ out = Idle
  /\ QIdle
  /\ BIdle
  /\ VIdle
  /\ PIdle
  /\ RIdle
  /\ CIdle
  /\ HIdle

NextX ==
  \/ \E b \in Bytes : AppendByte(b) /\ UNCHANGED <<wsVars, qVars, bVars, vVars, pVars, rVars, cVars, hVars>>
  \/ AppendDigit(0) /\ UNCHANGED <<wsVars, qVars, bVars, vVars, pVars, rVars, cVars, hVars>>
  \/ DecodeExtrinsicName /\ UNCHANGED <<wsVars, qVars, bVars, vVars, pVars, rVars, cVars, hVars>>

SpecX == InitX /\ [][NextX]_vars

\* The facade over a provider: Qapi.connect with and without table
\* overrides and optional module, then tablesForBlock calls and
\* identifications with the latest table.
InitQ ==
  /\ WsStart
  /\ budget = [calls |-> 0, unsubs |-> 0, drops |-> 0]
  /\ XIdle
  /\ cfg \in Configs
  /\ api = "none"
  /\ runtime = [specVersion |-> 0, metadata |-> "bad", ss58Prefix |-> "unset"]
  /\ tablesLatest = NoTable
  /\ tablesBySpec = <<>>
  /\ tasks = <<>>
  /\ BIdle
  /\ VIdle
  /\ PIdle
  /\ RIdle
  /\ CIdle
  /\ HIdle

NextQ ==
  \/ QConnect /\ UNCHANGED <<wsVars, xVars, bVars, vVars, pVars, rVars, cVars, hVars>>
  \/ \E kv, km, kp \in AnswerKinds, v \in SpecVersions \cup {NoSpec}, m \in Metas :
       ConnectResume(kv, v, km, m, kp) /\ UNCHANGED <<wsVars, xVars, bVars, vVars, pVars, rVars, cVars, hVars>>
  \/ Lookup /\ UNCHANGED <<wsVars, xVars, bVars, vVars, pVars, rVars, cVars, hVars>>
  \/ \E i \in DOMAIN tasks, k \in AnswerKinds, v \in SpecVersions \cup {NoSpec} :
       VersionAnswer(i, k, v) /\ UNCHANGED <<wsVars, xVars, bVars, vVars, pVars, rVars, cVars, hVars>>
  \/ \E i \in DOMAIN tasks, k \in AnswerKinds, m \in Metas :
       MetadataAnswer(i, k, m) /\ UNCHANGED <<wsVars, xVars, bVars, vVars, pVars, rVars, cVars, hVars>>
  \/ \E h \in Extrinsics :
       Identify(h) /\ UNCHANGED <<wsVars, qVars, bVars, vVars, pVars, rVars, cVars, hVars>>

SpecQ == InitQ /\ [][NextQ]_vars

\* One blocks.get call, by number or by hash, against a node that answers
\* each request in any of the ways it can.
InitB ==
  /\ WsStart
  /\ budget = [calls |-> 0, unsubs |-> 0, drops |-> 0]
  /\ XIdle
  /\ QIdle
  /\ BIdle
  /\ VIdle
  /\ PIdle
  /\ RIdle
  /\ CIdle
  /\ HIdle

NextB ==
  \/ \E byNumber \in BOOLEAN :
       Get(byNumber) /\ UNCHANGED <<wsVars, xVars, qVars, vVars, pVars, rVars, cVars, hVars>>
  \/ \E k \in AnswerKinds :
       HashAnswer(k) /\ UNCHANGED <<wsVars, xVars, qVars, vVars, pVars, rVars, cVars, hVars>>
  \/ \E k \in AnswerKinds, full \in BlockAnswers :
       BlockAnswer(k, full) /\ UNCHANGED <<wsVars, xVars, qVars, vVars, pVars, rVars, cVars, hVars>>
  \/ Wait /\ UNCHANGED <<wsVars, xVars, qVars, vVars, pVars, rVars, cVars, hVars>>
  \/ \E k \in AnswerKinds, h \in 1..MaxBlocks :
       HeaderAnswer(k, h) /\ UNCHANGED <<wsVars, xVars, qVars, vVars, pVars, rVars, cVars, hVars>>

SpecB == InitB /\ [][NextB]_vars

\* The variants of one type of the registry, then variantNamesFrom on it.
InitV ==
  /\ WsStart
  /\ budget = [calls |-> 0, unsubs |-> 0, drops |-> 0]
  /\ XIdle
  /\ QIdle
  /\ BIdle
  /\ VIdle
  /\ PIdle
  /\ RIdle
  /\ CIdle
  /\ HIdle

NextV ==
  \/ DeclareVariant /\ UNCHANGED <<wsVars, xVars, qVars, bVars, pVars, rVars, cVars, hVars>>
  \/ \E name \in VariantNames, index \in 0..MaxIndex :
       AddVariant(name, index) /\ UNCHANGED <<wsVars, xVars, qVars, bVars, pVars, rVars, cVars, hVars>>
  \/ VariantNamesFrom /\ UNCHANGED <<wsVars, xVars, qVars, bVars, pVars, rVars, cVars, hVars>>

SpecV == InitV /\ [][NextV]_vars

\* One pallet pass over records of any kind.
InitP ==
  /\ WsStart
  /\ budget = [calls |-> 0, unsubs |-> 0, drops |-> 0]
  /\ XIdle
  /\ QIdle
  /\ BIdle
  /\ VIdle
  /\ PIdle
  /\ RIdle
  /\ CIdle
  /\ HIdle

NextP ==
  \/ ReadPallets /\ UNCHANGED <<wsVars, xVars, qVars, bVars, vVars, rVars, cVars, hVars>>
  \/ \E rec \in PalletRecords :
       ReadOnePallet(rec) /\ UNCHANGED <<wsVars, xVars, qVars, bVars, vVars, rVars, cVars, hVars>>

SpecP == InitP /\ [][NextP]_vars

\* A value is encoded and the bytes are decoded again.
InitC ==
  /\ WsStart
  /\ budget = [calls |-> 0, unsubs |-> 0, drops |-> 0]
  /\ XIdle
  /\ QIdle
  /\ BIdle
  /\ VIdle
  /\ PIdle
  /\ RIdle
  /\ \E value \in Values : compact = RoundTrip("idle", value, Idle, Idle)
  /\ HIdle

NextC ==
  \/ Encode /\ UNCHANGED <<wsVars, xVars, qVars, bVars, vVars, pVars, rVars, hVars>>
  \/ Decode /\ UNCHANGED <<wsVars, xVars, qVars, bVars, vVars, pVars, rVars, hVars>>

SpecC == InitC /\ [][NextC]_vars

\* One registry pass over types that parse or fail in any pattern.
InitR ==
  /\ WsStart
  /\ budget = [calls |-> 0, unsubs |-> 0, drops |-> 0]
  /\ XIdle
  /\ QIdle
  /\ BIdle
  /\ VIdle
  /\ PIdle
  /\ RIdle
  /\ CIdle
  /\ HIdle

NextR ==
  \/ ReadRegistry /\ UNCHANGED <<wsVars, xVars, qVars, bVars, vVars, pVars, cVars, hVars>>
  \/ \E d \in {VariantDef, OtherDef} :
       TypeParses(d) /\ UNCHANGED <<wsVars, xVars, qVars, bVars, vVars, pVars, cVars, hVars>>
  \/ \E recovered, later \in BOOLEAN :
       TypeFails(recovered, later) /\ UNCHANGED <<wsVars, xVars, qVars, bVars, vVars, pVars, cVars, hVars>>

SpecR == InitR /\ [][NextR]_vars

\* One chainHead subscription: heads with and without a hash arrive, and the
\* supplementary requests are answered in any order.
InitH ==
  /\ WsStart
  /\ budget = [calls |-> 0, unsubs |-> 0, drops |-> 0]
  /\ XIdle
  /\ QIdle
  /\ BIdle
  /\ VIdle
  /\ PIdle
  /\ RIdle
  /\ CIdle
  /\ HIdle

NextH ==
  \/ \E hasHash \in BOOLEAN :
       NewHead(hasHash) /\ UNCHANGED <<wsVars, xVars, qVars, bVars, vVars, pVars, rVars, cVars>>
  \/ \E n \in 1..MaxHeads, k \in AnswerKinds :
       HashOfHead(n, k) /\ UNCHANGED <<wsVars, xVars, qVars, bVars, vVars, pVars, rVars, cVars>>

SpecH == InitH /\ [][NextH]_vars

----------------------------------------------------------------------------
(* Properties of the transport *)

\* A call that is no longer waiting: its promise has been settled.
Completed(c) == c.pc \in {"resolved", "done", "failed"}

\* C1: a message that is not a notification and whose id is a pending request
\* id removes that entry from pending and completes the awaiter of that
\* request, and no other, with what the message carries; a message whose id
\* is not pending completes nothing.
ResponseRouting ==
  [][\A m \in Messages :
       (m.sub = Null /\ m.id # 0 /\ Deliver(m)) =>
         IF m.id \in pending
           THEN /\ pending' = pending \ {m.id}
                /\ Completed(calls'[Owner(m.id)])
                /\ calls'[Owner(m.id)].val = m.val
                /\ \A c \in DOMAIN calls \ {Owner(m.id)} : calls'[c] = calls[c]
           ELSE UNCHANGED <<pending, calls>>]_vars

\* C2: a send() call whose request was answered with an error is completed
\* (with the RpcError).
ErrorPropagates ==
  \A c \in DOMAIN calls : calls[c].reply = "error" => Completed(calls[c])

\* C3: once the unsubscribe request of a closure call has been answered, with
\* a result or with an error, and the continuations have run, the handler of
\* the subscription is no longer in subs.
UnsubscribeRemoves ==
  \A c \in DOMAIN calls :
    (calls[c].op = "unsubscribe" /\ calls[c].reply # "none" /\ microtasks = <<>>)
      => String(calls[c].arg) \notin DOMAIN subs

\* C4: a call of a closure made after an earlier call of the same closure
\* has finished is a no-op: neither the call nor its continuations change id,
\* pending or subs, and it does not fail.
SecondUnsubscribeNoOp ==
  /\ [][Unsubscribe => (calls'[Len(calls')].again => UNCHANGED <<id, pending, subs>>)]_vars
  /\ [][(/\ microtasks # <<>>
         /\ calls[Head(microtasks)].again
         /\ Resume) => UNCHANGED <<id, pending, subs>>]_vars
  /\ [](\A v \in DOMAIN calls : calls[v].again => calls[v].pc # "failed")

\* C5: a message with a method and a non-null params.subscription calls the
\* handler registered under String(subscription) once, with params.result,
\* or no handler when none is registered; it changes neither pending, subs
\* nor id and completes no call.
NotificationDispatch ==
  [][\A m \in Notifications :
       Deliver(m) =>
         /\ ran' = IF String(m.sub) \in DOMAIN subs
                     THEN <<[h |-> subs[String(m.sub)], arg |-> m.val]>>
                     ELSE <<>>
         /\ UNCHANGED <<pending, subs, id, calls, microtasks>>]_vars

\* C5, reached: a handler has just been called while a request is pending.
HandlerRan == ran # <<>> /\ pending # {}

\* C6: at most one socket with handlers attached is alive at a time.
SingleSocket ==
  Cardinality({s \in Slots : socks[s] \in {"connecting", "open"}}) <= 1

\* C7: a socket close, a reconnect timer and the open of a socket leave
\* pending, subs and id as they are, and complete no call.
CloseKeepsRequests ==
  [][((\E s \in Slots : Close(s) \/ Open(s)) \/ Timer) =>
       /\ UNCHANGED <<id, pending, subs>>
       /\ \A c \in DOMAIN calls :
            /\ calls'[c].reply = calls[c].reply
            /\ Completed(calls'[c]) = Completed(calls[c])]_vars

\* C7, reached: the socket was lost while a request was pending, and the
\* reconnect timer has created the next socket.
Reconnecting ==
  /\ pending # {}
  /\ backoff > InitialBackoff
  /\ timers = 0
  /\ ws # 0
  /\ socks[ws] = "connecting"

\* C8: every close schedules one reconnect after the current backoff and
\* then doubles the backoff up to 10 000; an open resets it to 250; so the
\* backoff stays within 250..10 000 and the delays of consecutive failed
\* attempts are 250, 500, 1000, 2000, 4000, 8000, 10 000, 10 000, ...
BackoffSchedule ==
  /\ [](LET Schedule == <<250, 500, 1000, 2000, 4000, 8000>>
            Delay(i) == IF i \in DOMAIN Schedule THEN Schedule[i] ELSE 10000
        IN /\ backoff >= 250
           /\ backoff <= 10000
           /\ \A i \in DOMAIN delays : delays[i] = Delay(i)
           /\ backoff = Delay(Len(delays) + 1))
  /\ [][(\E s \in Slots : Close(s)) =>
          /\ timers' = timers + 1
          /\ delays' = Append(delays, backoff)
          /\ backoff' = IF 2 * backoff > 10000 THEN 10000 ELSE 2 * backoff]_vars
  /\ [][(\E s \in Slots : Open(s)) => backoff' = 250]_vars

\* C8, reached: eight attempts in a row have failed.
EightFailures == Len(delays) = 8 /\ backoff = 10000

\* C24: a call that awaited connect() on a socket that failed to open
\* completes once a later reconnect has given the transport an open socket:
\* with this.ws open and the continuations run, no such call is left
\* waiting.
ConnectCompletes ==
  (IsOpen /\ microtasks = <<>>) =>
    \A c \in DOMAIN calls : calls[c].pc # "hung"

\* C25: a notification for the subscription id that the response to a
\* subscribe() call carried (and to no other) is given to the handler of
\* that call, however soon after the response it arrives.
NoNotificationLost ==
  [][\A m \in Notifications, c \in DOMAIN calls :
       (/\ calls[c].op = "subscribe"
        /\ calls[c].reply = "result"
        /\ String(calls[c].val) = String(m.sub)
        /\ \A u \in DOMAIN calls \ {c} :
             /\ calls[u].op # "unsubscribe"
             /\ calls[u].reply = "result" => String(calls[u].val) # String(m.sub)
        /\ Deliver(m)) =>
         ran' = <<[h |-> c, arg |-> m.val]>>]_vars

----------------------------------------------------------------------------
(* Properties of extrinsic identification *)

\* C9: codec.decodeExtrinsicName never throws.
NeverThrows == out.st # "threw"

\* C10: for an unsigned extrinsic and a table, with P the first entry whose
\* index is the pallet byte: when P.calls[callIdx] exists the result is
\* P.name and that call name without reason; otherwise the reason is
\* pallet-index-not-found without P, and call-index-out-of-range with P.
UnsignedReasons ==
  (out.st = "returned" /\ table.some /\ ~out.val.signed) =>
    LET u8 == hexToU8a(hex).val
        offset == readExtrinsicPrefix(u8).val.offset
        palletIdx == OrFF(u8, offset)
        callIdx == OrFF(u8, offset + 1)
        P == find(table.pallets, palletIdx)
    IN IF P # 0 /\ table.pallets[P].hasCalls
            /\ callIdx < Len(table.pallets[P].calls)
         THEN /\ out.val.pallet = table.pallets[P].name
              /\ out.val.method = table.pallets[P].calls[callIdx + 1]
              /\ out.val.reason = "none"
         ELSE out.val.reason = IF P = 0 THEN "pallet-index-not-found"
                               ELSE "call-index-out-of-range"

\* C11: whenever decodeExtrinsicName returns, pallet and method are non-empty
\* strings.
NamesNonEmpty ==
  out.st = "returned" => out.val.pallet # <<>> /\ out.val.method # <<>>

\* C12: for every hex h that has its compact length and its version byte,
\* with prefix_len the number of bytes of the compact length: the call
\* returns, signed is bit 7 of bytes(h)[prefix_len], and the pallet and call
\* indices are the bytes at prefix_len + 1 and prefix_len + 2 (255 when h
\* ends before them), with or without a table.
SignedBitAndOffsets ==
  out.st # "idle" =>
    LET n == Len(hex) \div 2
        byte(i) == 16 * hex[2 * i + 1] + hex[2 * i + 2]
        mode == byte(0) % 4
        prefix_len == CASE mode = 0 -> 1 [] mode = 1 -> 2 [] mode = 2 -> 4
                        [] OTHER -> 0
        body_offset == prefix_len + 1
        idx(i) == IF i < n THEN byte(i) ELSE 255
        entries == {k \in DOMAIN table.pallets :
                      table.pallets[k].index = idx(body_offset)}
    IN (Len(hex) % 2 = 0 /\ n > 0 /\ prefix_len # 0 /\ prefix_len < n) =>
         /\ out.st = "returned"
         /\ out.val.signed = (byte(prefix_len) >= 128)
         /\ IF entries = {}
              THEN /\ out.val.pallet = unknown(idx(body_offset))
                   /\ out.val.method = unknown(idx(body_offset + 1))
              ELSE \E k \in entries :
                     /\ out.val.pallet = table.pallets[k].name
                     /\ IF idx(body_offset + 1) < Len(table.pallets[k].calls)
                          THEN out.val.method =
                                 table.pallets[k].calls[idx(body_offset + 1) + 1]
                          ELSE out.val.method = unknown(idx(body_offset + 1))

\* C12, reached: a signed extrinsic with a four-byte compact length has been
\* identified without a table, its indices being 1 and 2.
SignedFourBytePrefix ==
  /\ out.st = "returned"
  /\ ~table.some
  /\ hex = <<0, 2, 0, 0, 0, 0, 0, 0, 15, 15, 0, 1, 0, 2>>
  /\ out.val.signed
  /\ out.val.pallet = unknown(1)
  /\ out.val.method = unknown(2)

\* C28: an extrinsic that ends before its pallet-index byte is given no
\* name from the table: pallet and method are the unknown(255) forms,
\* whatever the table holds.
MissingIndexUnnamed ==
  (/\ out.st = "returned"
   /\ hexToU8a(hex).st = "returned"
   /\ readExtrinsicPrefix(hexToU8a(hex).val).st = "returned"
   /\ readExtrinsicPrefix(hexToU8a(hex).val).val.offset >= Len(hexToU8a(hex).val)) =>
    /\ out.val.pallet = unknown(255)
    /\ out.val.method = unknown(255)

----------------------------------------------------------------------------
(* Properties of the facade *)

\* C13: a lookup whose block reports a spec version v that is in the cache
\* returns the cached table without a state_getMetadata request; for a v
\* that was not in the cache the metadata is fetched, decoded, stored under v
\* and returned.
ReadThroughCache ==
  /\ [][\A i \in DOMAIN tasks, v \in SpecVersions :
          (v \in DOMAIN tablesBySpec /\ VersionAnswer(i, "result", v)) =>
            /\ tasks'[i].pc = "done"
            /\ tasks'[i].ret = tablesBySpec[v]]_vars
  /\ [][\A i \in DOMAIN tasks, m \in Metas :
          (/\ tasks[i].pc = "metadata"
           /\ tasks[i].spec \in SpecVersions
           /\ tryExtract(m, cfg.compat).some
           /\ MetadataAnswer(i, "result", m)) =>
            /\ tasks'[i].pc = "done"
            /\ tasks'[i].ret = tryExtract(m, cfg.compat)
            /\ tasks[i].spec \in DOMAIN tablesBySpec'
            /\ tablesBySpec'[tasks[i].spec] = tryExtract(m, cfg.compat)]_vars

\* C14: a lookup in which a request failed (state_getRuntimeVersion or
\* state_getMetadata), or whose metadata no parser decodes, does not wait for
\* ever, and when it returns it returns the latest table and the cache is as
\* before.
FailureGivesLatest ==
  [][\A i \in DOMAIN tasks :
       (\/ \E k \in AnswerKinds \ {"result"}, v \in SpecVersions :
              VersionAnswer(i, k, v)
        \/ \E k \in AnswerKinds, m \in Metas :
              /\ \/ k # "result"
                 \/ tasks[i].failed
                 \/ ~tryExtract(m, cfg.compat).some
              /\ MetadataAnswer(i, k, m)) =>
         /\ tasks'[i].pc # "hung"
         /\ tasks'[i].pc = "done" =>
              tasks'[i].ret = tablesLatest /\ UNCHANGED tablesBySpec]_vars

\* C17: without overrides, when the reader fails on runtime.metadata and the
\* optional module gives no table, Qapi.connect returns a facade whose latest
\* table and cache are empty, and an identification (of a hex that has its
\* compact length and version byte) returns unknown(p), unknown(c) and
\* no-metadata, p and c being the bytes after the version byte.
DegradedConnect ==
  /\ [][\A v \in SpecVersions \cup {NoSpec}, m \in Metas, kp \in {"result", "threw"} :
          (/\ ~cfg.overrides.some
           /\ cfg.compat # "yields"
           /\ extractMetaTables(m).st = "threw"
           /\ ConnectResume("result", v, "result", m, kp)) =>
            /\ api' = "ready"
            /\ ~tablesLatest'.some
            /\ DOMAIN tablesBySpec' = {}]_vars
  /\ []((/\ api = "ready"
         /\ ~cfg.overrides.some
         /\ cfg.compat # "yields"
         /\ extractMetaTables(runtime.metadata).st = "threw") =>
          /\ ~tablesLatest.some
          /\ (out.st # "idle" /\ Len(hex) >= 4) =>
               /\ out.st = "returned"
               /\ out.val.reason = "no-metadata"
               /\ out.val.pallet =
                    unknown(IF Len(hex) >= 6 THEN 16 * hex[5] + hex[6] ELSE 255)
               /\ out.val.method =
                    unknown(IF Len(hex) >= 8 THEN 16 * hex[7] + hex[8] ELSE 255))

\* C17, reached: such a facade has identified 0x00000102 as unknown(1),
\* unknown(2).
DegradedIdentified ==
  /\ api = "ready"
  /\ ~cfg.overrides.some
  /\ cfg.compat = "throws"
  /\ runtime.metadata = "bad"
  /\ hex = <<0, 0, 0, 0, 0, 1, 0, 2>>
  /\ out.st = "returned"
  /\ out.val.reason = "no-metadata"
  /\ out.val.pallet = unknown(1)

\* C18: when Qapi.connect is given overrides.metadata.tables, those are the
\* latest table and the cache entry of runtime.specVersion, and pallet 0,
\* call 0 of the example table is identified as System.remark.
OverridesAdopted ==
  (api = "ready" /\ cfg.overrides.some) =>
    /\ tablesLatest = cfg.overrides
    /\ runtime.specVersion \in DOMAIN tablesBySpec
    /\ tablesBySpec[runtime.specVersion] = cfg.overrides
    /\ (out.st # "idle" /\ hex = <<0, 0, 0, 0, 0, 0, 0, 0>>) =>
         /\ out.st = "returned"
         /\ out.val.pallet = Text("System")
         /\ out.val.method = Text("remark")

\* C19: when state_getRuntimeVersion and state_getMetadata succeed and
\* system_properties is answered with an error, Qapi.connect completes with
\* specVersion and metadata set and ss58Prefix unset.
PropertiesNonFatal ==
  [][\A v \in SpecVersions, m \in Metas :
       ConnectResume("result", v, "result", m, "error") =>
         /\ api' = "ready"
         /\ runtime' = [specVersion |-> v, metadata |-> m,
                        ss58Prefix |-> "unset"]]_vars

\* C27: no two tablesForBlock calls have a state_getMetadata request under
\* way for the same spec version, and a cache entry, once set, is not
\* replaced.
SingleFetchPerVersion ==
  /\ [](\A i, j \in DOMAIN tasks :
          (/\ tasks[i].pc = "metadata"
           /\ tasks[j].pc = "metadata"
           /\ tasks[i].spec \in SpecVersions
           /\ tasks[i].spec = tasks[j].spec) => i = j)
  /\ [][\A v \in DOMAIN tablesBySpec :
          /\ v \in DOMAIN tablesBySpec'
          /\ tablesBySpec'[v] = tablesBySpec[v]]_vars

----------------------------------------------------------------------------
(* Properties of blocks.get *)

\* C15: blocks.get sends chain_getBlock at most 5 times, every attempt after
\* the first preceded by one wait of 150 ms; an answer without a block to
\* one of the first four attempts starts the wait of a retry, and an answer
\* that carries a block ends the call, which returns that block and sends
\* nothing more; when the first three answers are {block: null} and the
\* fourth carries a block, that block is returned after exactly three waits.
RetryPolicy ==
  /\ [](/\ get.sent <= 5
        /\ get.sent >= 1 => Len(get.waited) = get.sent - 1
        /\ \A j \in DOMAIN get.waited : get.waited[j] = 150)
  /\ [][\A full \in BlockAnswers :
          BlockAnswer("result", full) =>
            IF hasBlock(full)
              THEN /\ get'.pc = "returned"
                   /\ get'.ret = Full("block", full.n)
                   /\ get'.sent = get.sent
                   /\ get'.headers = get.headers
              ELSE get.sent < 5 => get'.pc = "wait"]_vars
  /\ [](\A b \in 1..MaxBlocks :
          get.answers = <<Full("wrapper", 0), Full("wrapper", 0),
                          Full("wrapper", 0), Full("wrapper", b)>> =>
            /\ get.pc = "returned"
            /\ get.ret = Full("block", b)
            /\ get.sent = 4
            /\ Len(get.waited) = 3)

\* C15, reached: three {block: null} answers, then block 1, returned after
\* three waits of 150 ms.
FourthAttemptReturned ==
  /\ get.answers = <<Full("wrapper", 0), Full("wrapper", 0),
                     Full("wrapper", 0), Full("wrapper", 1)>>
  /\ get.pc = "returned"
  /\ get.ret = Full("block", 1)
  /\ get.waited = <<150, 150, 150>>

\* C16: when each of the five answers is null or {block: null}, blocks.get
\* has sent chain_getHeader once and what it returns is
\* {header, extrinsics: []}; whatever blocks.get returns is a block or that
\* degraded object, all with an extrinsics array.
DegradedResult ==
  /\ (/\ Len(get.answers) = 5
      /\ \A j \in DOMAIN get.answers :
           get.answers[j] \in {Full("null", 0), Full("wrapper", 0)}
      /\ get.pc \in {"returned", "header"}) =>
       /\ get.headers = 1
       /\ get.pc = "returned" => get.ret.shape = "degraded"
  /\ get.pc = "returned" => get.ret.shape \in {"block", "flat", "degraded"}

\* C30: when the first chain_getBlock answer is the flat {extrinsics, header},
\* blocks.get returns that object, having sent one chain_getBlock request and
\* waited not at all.
FlatReturnedAtOnce ==
  (get.answers # <<>> /\ get.answers[1].shape = "flat") =>
    /\ get.pc = "returned"
    /\ get.ret = get.answers[1]
    /\ get.sent = 1
    /\ get.waited = <<>>

----------------------------------------------------------------------------
(* Properties of the name tables *)

\* C20: for a Variant type whose variants have distinct indices, the names
\* sequence holds the name of the variant with index i at position i
\* (counted from 0), for every declared i.
DenseByIndex ==
  (/\ names.st = "returned"
   /\ def.kind = "Variant"
   /\ \A j, k \in DOMAIN def.variants :
        def.variants[j].index = def.variants[k].index => j = k) =>
    /\ names.val.some
    /\ \A j \in DOMAIN def.variants :
         /\ def.variants[j].index + 1 \in DOMAIN names.val.names
         /\ names.val.names[def.variants[j].index + 1] = def.variants[j].name

----------------------------------------------------------------------------
(* Properties of the metadata reader *)

\* C21: once the count n is read the pallet pass does not abort; it returns
\* n entries in record order, entry i being the parsed record or, for an
\* unreadable record, the placeholder pallet_<i> with index 255, and a
\* failure at record i is followed by the read of record i+1.
PalletPassCompletes ==
  /\ [](pass.st = "threw" => pass.records = <<>>)
  /\ [](pass.st = "returned" =>
          /\ Len(pass.out) = pass.len
          /\ Len(pass.records) = pass.len
          /\ \A i \in 0..(pass.len - 1) :
               LET rec == pass.records[i + 1] IN
                 pass.out[i + 1] =
                   IF rec.readable
                     THEN Pallet(rec.name, rec.index, FALSE, <<>>)
                     ELSE [name |-> <<"pallet_", ToString(i)>>, index |-> 255,
                           hasCalls |-> FALSE, calls |-> <<>>])
  /\ [][\A rec \in PalletRecords :
          (~rec.readable /\ ReadOnePallet(rec) /\ Len(pass.out) + 1 < pass.len)
            => pass'.st = "reading"]_vars

\* C21, reached: three records, the second unreadable; the pass returned
\* with pallet_1 between two parsed entries.
PlaceholderBetween ==
  /\ pass.st = "returned"
  /\ pass.len = 3
  /\ pass.records[1].readable
  /\ ~pass.records[2].readable
  /\ pass.records[3].readable
  /\ pass.out[2].name = <<"pallet_", "1">>
  /\ pass.out[3].name = Text(pass.records[3].name)

\* C22: for 0 <= n < 2^30 the decoder, given the bytes the encoder returns
\* for n, returns n and the number of those bytes: 1 for n <= 63, 2 for
\* n <= 16383, 4 above.
CompactRoundTrip ==
  (compact.st # "idle" /\ compact.value >= 0 /\ compact.value < 1073741824) =>
    /\ compact.enc.st = "returned"
    /\ Len(compact.enc.val) = IF compact.value <= 63 THEN 1
                              ELSE IF compact.value <= 16383 THEN 2 ELSE 4
    /\ compact.st = "decoded" =>
         /\ compact.dec.st = "returned"
         /\ compact.dec.val = <<compact.value, Len(compact.enc.val)>>

\* C22, reached: 1073741823 went through four bytes and came back.
LargestRoundTrip ==
  /\ compact.st = "decoded"
  /\ compact.value = 1073741823
  /\ compact.enc.val = <<254, 255, 255, 255>>
  /\ compact.dec.val = <<1073741823, 4>>

\* C23: a type that fails is recorded as Other under its ordinal; the pass
\* has stopped once 5 consecutive types have failed or the resync found no
\* header, and goes on otherwise; a type that parses sets the count of
\* consecutive failures to 0.
RegistryRecovery ==
  /\ [][\A recovered, later \in BOOLEAN :
          TypeFails(recovered, later) =>
            /\ registry'.m[registry.i] = OtherDef
            /\ (registry'.st = "returned") <=>
                 \/ registry.consecutiveFailures + 1 >= 5
                 \/ ~recovered
                 \/ registry.i + 1 = registry.len]_vars
  /\ [][\A d \in {VariantDef, OtherDef} :
          TypeParses(d) => registry'.consecutiveFailures = 0]_vars
  /\ [](registry.st = "reading" => registry.consecutiveFailures < 5)

\* C29: an id that the map gives a parsed Variant definition keeps that
\* definition in every later step of the pass.
ParsedTypesKept ==
  [][\A k \in DOMAIN registry.m :
       registry.m[k] = VariantDef =>
         /\ k \in DOMAIN registry'.m
         /\ registry'.m[k] = VariantDef]_vars

----------------------------------------------------------------------------
(* Properties of chainHead.subscribe *)

\* C26: cb is called for the heads in the order in which their notifications
\* arrived.
HeadsInOrder ==
  \A j, k \in DOMAIN heads.called :
    j < k => heads.called[j] < heads.called[k]

====
